---- MODULE Spec2Model ----
(***************************************************************************)
(* A model of the journal-matching application (streamlit_app.py):         *)
(* load_journal_db, get_journal_info_with_log (with its st.cache_data      *)
(* memo), classify_sjr, color_sjr_score and the search loop that builds    *)
(* the result rows and the failed-match log.                               *)
(*                                                                         *)
(* A Python str is a tuple of one-character strings.  A float is an        *)
(* integer number of ten-thousandths (0.05 is 500, 1.0 is 10000); np.nan   *)
(* is np_nan.  A string rendered by the ".3f" format is the record         *)
(* [lit |-> "num", milli |-> thousandths].                                 *)
(***************************************************************************)
EXTENDS Integers, Sequences, FiniteSets, TLC

VARIABLES
    csv,                \* rows of the journal data file, as pandas reads them
    db_df,              \* the loaded DataFrame: a sequence of rows
    journal_names_upper_list,
    cache,              \* st.cache_data memo of get_journal_info_with_log
    only_if_found,      \* the form's checkbox
    search_query,       \* the publications scholarly.search_pubs yields
    i,                  \* the loop index of enumerate(search_query)
    results,            \* the rows appended by the loop
    failed_matches_log,
    processed,          \* one entry per loop iteration: what the call returned
    df_display,         \* the displayed table (rows with grade and colour)
    arg,                \* the input of the function under check
    ret,                \* what it returned
    pc

vars == <<csv, db_df, journal_names_upper_list, cache, only_if_found,
          search_query, i, results, failed_matches_log, processed,
          df_display, arg, ret, pc>>

(***************************************************************************)
(* Bounds of the model.                                                    *)
(***************************************************************************)
MaxLen == 3          \* longest enumerated venue string
MaxRows == 2         \* most rows of a journal data file
MaxPubs == 3         \* longest stream of arbitrary publications
MaxMetric == 10020   \* largest enumerated metric value (ten-thousandths)

(***************************************************************************)
(* Program constants.                                                      *)
(***************************************************************************)
MAX_RESULTS_LIMIT == 200
MATCH_SCORE_THRESHOLD == 95
TOP_JOURNAL_IF_THRESHOLD == 80000
np_nan == -1
BELOW_FLOOR == 500

(***************************************************************************)
(* Python str operations.                                                  *)
(***************************************************************************)
LowerLetters == <<"a","b","c","d","e","f","g","h","i","j","k","l","m",
                  "n","o","p","q","r","s","t","u","v","w","x","y","z">>
UpperLetters == <<"A","B","C","D","E","F","G","H","I","J","K","L","M",
                  "N","O","P","Q","R","S","T","U","V","W","X","Y","Z">>
Digits == <<"0","1","2","3","4","5","6","7","8","9">>

IndexIn(c, letters) ==
    IF \E k \in 1..Len(letters) : letters[k] = c
    THEN CHOOSE k \in 1..Len(letters) : letters[k] = c
    ELSE 0

char_upper(c) ==
    IF IndexIn(c, LowerLetters) > 0 THEN UpperLetters[IndexIn(c, LowerLetters)] ELSE c

char_lower(c) ==
    IF IndexIn(c, UpperLetters) > 0 THEN LowerLetters[IndexIn(c, UpperLetters)] ELSE c

IsSpace(c) == c = " "

IsAlnum(c) ==
    \/ IndexIn(c, LowerLetters) > 0
    \/ IndexIn(c, UpperLetters) > 0
    \/ IndexIn(c, Digits) > 0

str_upper(s) == [k \in 1..Len(s) |-> char_upper(s[k])]

str_lower(s) == [k \in 1..Len(s) |-> char_lower(s[k])]

RECURSIVE str_lstrip(_)
str_lstrip(s) ==
    IF s # <<>> /\ IsSpace(Head(s)) THEN str_lstrip(Tail(s)) ELSE s

RECURSIVE str_rstrip(_)
str_rstrip(s) ==
    IF s # <<>> /\ IsSpace(s[Len(s)])
    THEN str_rstrip(SubSeq(s, 1, Len(s) - 1))
    ELSE s

str_strip(s) == str_rstrip(str_lstrip(s))

(***************************************************************************)
(* thefuzz: utils.full_process, fuzz.ratio and process.extractOne.         *)
(***************************************************************************)
\* Every character that is not a letter or a digit becomes a space; then
\* the string is lower-cased and trimmed.  Internal spaces stay as they are.
full_process(s) ==
    str_strip(str_lower([k \in 1..Len(s) |-> IF IsAlnum(s[k]) THEN s[k] ELSE " "]))

Max2(a, b) == IF a >= b THEN a ELSE b

\* One row of the longest-common-subsequence table: the row of character c
\* given the row above it (prev, indexed 1..Len(t)+1 for columns 0..Len(t)).
RECURSIVE lcs_row(_, _, _, _)
lcs_row(prev, c, t, acc) ==
    IF Len(acc) = Len(t) + 1 THEN acc
    ELSE LET j == Len(acc)      \* the column to fill, 1..Len(t)
             v == IF c = t[j] THEN prev[j] + 1
                  ELSE Max2(prev[j + 1], acc[j])
         IN  lcs_row(prev, c, t, Append(acc, v))

RECURSIVE lcs_rows(_, _, _, _)
lcs_rows(s, t, k, prev) ==
    IF k > Len(s) THEN prev[Len(t) + 1]
    ELSE lcs_rows(s, t, k + 1, lcs_row(prev, s[k], t, <<0>>))

lcs_len(s, t) == lcs_rows(s, t, 1, [j \in 1..Len(t) + 1 |-> 0])

\* Python's round() of the rational n/d (d > 0): to nearest, ties to even.
round_half_even(n, d) ==
    LET q == n \div d
        r == n % d
    IN  IF 2 * r < d THEN q
        ELSE IF 2 * r > d THEN q + 1
        ELSE IF q % 2 = 0 THEN q ELSE q + 1

\* fuzz.ratio on processed strings: the normalized indel similarity
\* 100 * 2*LCS / (len1 + len2), rounded to an int; 100 for two empty strings.
fuzz_ratio(s, t) ==
    IF Len(s) + Len(t) = 0 THEN 100
    ELSE round_half_even(200 * lcs_len(s, t), Len(s) + Len(t))

\* The index of the first choice with the highest score (score_cutoff = 0).
RECURSIVE best_index(_, _, _, _)
best_index(scores, k, best, bestScore) ==
    IF k > Len(scores) THEN best
    ELSE IF scores[k] > bestScore
         THEN best_index(scores, k + 1, k, scores[k])
         ELSE best_index(scores, k + 1, best, bestScore)

\* Mutant: extractOne called with processor=None.
extractOne_unprocessed(query, choices) ==
    LET scores == [k \in 1..Len(choices) |-> fuzz_ratio(query, choices[k])]
        b == best_index(scores, 1, 0, -1)
    IN  [choice |-> choices[b], score |-> scores[b]]

\* process.extractOne(query, choices, scorer=fuzz.ratio): the default
\* processor full_process is applied to the query and to every choice.
extractOne(query, choices) ==
    LET q == full_process(query)
        scores == [k \in 1..Len(choices) |-> fuzz_ratio(q, full_process(choices[k]))]
        b == best_index(scores, 1, 0, -1)
    IN  [choice |-> choices[b], score |-> scores[b]]

(***************************************************************************)
(* Python float() and the ".3f" format.                                    *)
(***************************************************************************)
ValueError == -2

RECURSIVE digits_value(_, _)
digits_value(s, acc) ==
    IF s = <<>> THEN acc
    ELSE digits_value(Tail(s), 10 * acc + (IndexIn(Head(s), Digits) - 1))

AllDigits(s) == \A k \in 1..Len(s) : IndexIn(s[k], Digits) > 0

\* float(text) for an unsigned decimal literal with at most four fractional
\* digits (every literal of the model): its value in ten-thousandths.  Any
\* other text raises ValueError.
float_of_str(text) ==
    LET s == str_strip(text)
        dots == {k \in 1..Len(s) : s[k] = "."}
    IN  IF s = <<>> THEN ValueError
        ELSE IF dots = {}
        THEN IF AllDigits(s) THEN 10000 * digits_value(s, 0) ELSE ValueError
        ELSE IF Cardinality(dots) > 1 THEN ValueError
        ELSE LET d == CHOOSE k \in dots : TRUE
                 ip == SubSeq(s, 1, d - 1)
                 fp == SubSeq(s, d + 1, Len(s))
                 pad == fp \o [k \in 1..(4 - Len(fp)) |-> "0"]
             IN  IF /\ AllDigits(ip) /\ AllDigits(fp)
                    /\ Len(ip) + Len(fp) > 0 /\ Len(fp) <= 4
                 THEN 10000 * digits_value(ip, 0) + digits_value(pad, 0)
                 ELSE ValueError

\* f"{x:.3f}": x rounded to thousandths.  A value whose fourth decimal is 5
\* is a decimal tie that the binary float breaks one way or the other; the
\* model's inputs leave those values out, and ties go to even here.
format_3f(x) == [lit |-> "num", milli |-> round_half_even(x, 10)]

\* float(s) of a string the ".3f" format wrote.
float_of_3f(s) == 10 * s.milli

STR_NA == <<"N", "/", "A">>
STR_BELOW_FLOOR == <<"<", "0", ".", "1">>
DB_MATCH_FAILED == <<"<DB match failed>">>
DB_LOOKUP_ERROR == <<"<DB lookup error>">>

pd_isna(x) == x = np_nan

(***************************************************************************)
(* load_journal_db.  A cell of the file is [na |-> TRUE] when pandas reads *)
(* it as missing, else [na |-> FALSE, s |-> its text].                     *)
(***************************************************************************)
NoneDF == [none |-> TRUE, rows |-> <<>>]

convert_if(value) ==
    IF str_strip(value) = STR_BELOW_FLOOR THEN BELOW_FLOOR
    ELSE IF float_of_str(value) = ValueError THEN np_nan
    ELSE float_of_str(value)

\* df.dropna(subset=['journal_title', 'impact_factor'])
dropna_cells(rows) ==
    SelectSeq(rows, LAMBDA r : ~r.journal_title.na /\ ~r.impact_factor.na)

add_columns(rows) ==
    [k \in 1..Len(rows) |->
        [journal_title |-> rows[k].journal_title.s,
         journal_title_upper |-> str_upper(rows[k].journal_title.s),
         impact_factor_numeric |-> convert_if(rows[k].impact_factor.s),
         source_row |-> rows[k].source_row]]

\* df.dropna(subset=['impact_factor_numeric'])
dropna_numeric(rows) ==
    SelectSeq(rows, LAMBDA r : ~pd_isna(r.impact_factor_numeric))

\* The rows of the file numbered by their place in it (the DataFrame index).
indexed(rows) ==
    [k \in 1..Len(rows) |->
        [journal_title |-> rows[k].journal_title,
         impact_factor |-> rows[k].impact_factor,
         source_row |-> k]]

\* Mutant: a metric that is no number fails the whole load.
load_fails_on_bad_row(file) ==
    IF ~file.exists THEN NoneDF
    ELSE IF \E k \in 1..Len(file.rows) :
                /\ ~file.rows[k].impact_factor.na
                /\ pd_isna(convert_if(file.rows[k].impact_factor.s))
    THEN NoneDF
    ELSE [none |-> FALSE,
          rows |-> dropna_numeric(add_columns(dropna_cells(indexed(file.rows))))]

load_journal_db(file) ==
    IF ~file.exists THEN NoneDF
    ELSE [none |-> FALSE,
          rows |-> dropna_numeric(add_columns(dropna_cells(indexed(file.rows))))]

\* df['journal_title_upper'].tolist(); None and [] are alike to the caller.
names_upper_list(df) ==
    [k \in 1..Len(df.rows) |-> df.rows[k].journal_title_upper]

(***************************************************************************)
(* get_journal_info_with_log.  The field extractOne_calls counts the calls *)
(* of process.extractOne the call made.                                    *)
(***************************************************************************)
\* Mutant: a looser acceptance threshold.
accepts_loose(score) == score >= 85

accepts(score) == score >= MATCH_SCORE_THRESHOLD

\* str(venue_from_scholar).strip().upper()
venue_processed(venue) == str_upper(str_strip(venue))

\* db_df.loc[db_df['journal_title_upper'] == best_db_candidate_upper]
matched_rows(df, candidate) ==
    SelectSeq(df.rows, LAMBDA r : r.journal_title_upper = candidate)

early_return(venue) ==
    [if_float |-> np_nan, db_matched |-> STR_NA, scholar_venue_processed |-> venue,
     best_db_candidate |-> STR_NA, score |-> 0, extractOne_calls |-> 0]

get_journal_info_with_log(venue, df, names) ==
    IF venue = <<>> \/ df.none \/ names = <<>> THEN early_return(venue)
    ELSE IF venue_processed(venue) = <<>> THEN early_return(venue)
    ELSE LET p == venue_processed(venue)
             best == extractOne(p, names)
             m == matched_rows(df, best.choice)
         IN  IF accepts(best.score)
             THEN IF m # <<>>
                  THEN [if_float |-> m[1].impact_factor_numeric,
                        db_matched |-> m[1].journal_title,
                        scholar_venue_processed |-> p,
                        best_db_candidate |-> best.choice,
                        score |-> best.score, extractOne_calls |-> 1]
                  ELSE [if_float |-> np_nan, db_matched |-> DB_LOOKUP_ERROR,
                        scholar_venue_processed |-> p,
                        best_db_candidate |-> best.choice,
                        score |-> best.score, extractOne_calls |-> 1]
             ELSE [if_float |-> np_nan, db_matched |-> DB_MATCH_FAILED,
                   scholar_venue_processed |-> p,
                   best_db_candidate |-> best.choice,
                   score |-> best.score, extractOne_calls |-> 1]

(***************************************************************************)
(* classify_sjr and color_sjr_score.                                       *)
(***************************************************************************)
\* Mutant: the boundary 1.0 left out of the top band.
classify_sjr_strict(impact_factor_float) ==
    IF pd_isna(impact_factor_float) THEN "N/A"
    ELSE IF impact_factor_float > 10000 THEN "excellent"
    ELSE IF 5000 <= impact_factor_float /\ impact_factor_float <= 10000 THEN "good"
    ELSE IF 2000 <= impact_factor_float /\ impact_factor_float < 5000 THEN "fair"
    ELSE "poor"

classify_sjr(impact_factor_float) ==
    IF pd_isna(impact_factor_float) THEN "N/A"
    ELSE IF impact_factor_float >= 10000 THEN "excellent"
    ELSE IF 5000 <= impact_factor_float /\ impact_factor_float < 10000 THEN "good"
    ELSE IF 2000 <= impact_factor_float /\ impact_factor_float < 5000 THEN "fair"
    ELSE "poor"

color_of_score(score) ==
    IF score >= 10000 THEN "green"
    ELSE IF 5000 <= score /\ score < 10000 THEN "blue"
    ELSE IF 2000 <= score /\ score < 5000 THEN "orange"
    ELSE "red"

\* The argument is the row's Impact Factor string.
color_sjr_score(val) ==
    IF val.lit = "N/A" THEN "grey"
    ELSE IF val.lit = "<0.1" THEN color_of_score(BELOW_FLOOR)
    ELSE color_of_score(float_of_3f(val))

\* Mutant: the field without the test for the sentinel.
impact_factor_field_plain(if_float) ==
    IF ~pd_isna(if_float) THEN format_3f(if_float)
    ELSE [lit |-> "N/A", milli |-> 0]

\* The row's "Impact Factor" field (line 208).
impact_factor_field(if_float) ==
    IF ~pd_isna(if_float) /\ if_float # BELOW_FLOOR THEN format_3f(if_float)
    ELSE IF if_float = BELOW_FLOOR THEN [lit |-> "<0.1", milli |-> 0]
    ELSE [lit |-> "N/A", milli |-> 0]

(***************************************************************************)
(* Inputs.                                                                 *)
(***************************************************************************)
Cell(s) == [na |-> FALSE, s |-> s]
NA_CELL == [na |-> TRUE, s |-> <<>>]
File(rows) == [exists |-> TRUE, rows |-> rows]
NO_FILE == [exists |-> FALSE, rows |-> <<>>]
Row(title, impact) == [journal_title |-> title, impact_factor |-> impact]

SeqsUpTo(S, n) == UNION {[1..k -> S] : k \in 0..n}

\* Journal titles of the data file.
T_The_Lancet == <<"T", "h", "e", " ", "L", "a", "n", "c", "e", "t">>
T_THE_LANCET == <<"T", "H", "E", " ", "L", "A", "N", "C", "E", "T">>
T_BMJ_Open == <<"B", "M", "J", " ", "O", "p", "e", "n">>
T_N_A == <<"N", " ", "A">>
T_Cell == <<" ", "C", "e", "l", "l">>

\* Impact-factor cells of the data file.
IF_below_floor == <<"<", "0", ".", "1">>
IF_below_floor_padded == <<" ", "<", "0", ".", "1", " ">>
IF_0_05 == <<"0", ".", "0", "5">>
IF_0_9996 == <<"0", ".", "9", "9", "9", "6">>
IF_0_5 == <<"0", ".", "5">>
IF_8_5 == <<"8", ".", "5">>
IF_text == <<"a", "b", "c">>
IF_comma == <<"1", ",", "5">>

\* Venues of the publications.
V_empty == <<>>
V_blank == <<" ", " ">>
V_the_lancet == <<"t", "h", "e", " ", "l", "a", "n", "c", "e", "t">>
V_the_lancet_padded == <<" ", "T", "h", "e", " ", "L", "a", "n", "c", "e", "t", " ">>
V_the_lancet_wide == <<"t", "h", "e", " ", " ", "l", "a", "n", "c", "e", "t">>
V_the_lancets == <<"T", "h", "e", " ", "L", "a", "n", "c", "e", "t", "s">>
V_bmj_opens == <<"B", "M", "J", " ", "O", "p", "e", "n", "s">>
V_bmj_wide == <<"b", "m", "j", " ", " ", "o", "p", "e", "n">>
V_xyz == <<"X", "Y", "Z">>

TitleCells == {NA_CELL, Cell(T_The_Lancet), Cell(T_THE_LANCET), Cell(T_BMJ_Open)}
ImpactCells == {NA_CELL, Cell(IF_below_floor), Cell(IF_below_floor_padded),
                Cell(IF_0_05), Cell(IF_0_9996), Cell(IF_8_5), Cell(IF_text),
                Cell(IF_comma)}

\* Data files of the loader's check: every row of title and impact cells.
LoadFiles ==
    {NO_FILE} \cup
    {File(rows) : rows \in SeqsUpTo({Row(t, f) : t \in TitleCells, f \in ImpactCells}, MaxRows)}

\* Data files of the matcher's check.
MatchRows == {Row(Cell(T_The_Lancet), Cell(IF_below_floor)),
              Row(Cell(T_THE_LANCET), Cell(IF_8_5)),
              Row(Cell(T_BMJ_Open), Cell(IF_0_9996)),
              Row(Cell(T_Cell), Cell(IF_0_5)),
              Row(Cell(<<"A", "-", "b">>), Cell(IF_0_5)),
              Row(Cell(<<"a", " ", "b">>), Cell(IF_0_05)),
              Row(Cell(<<"A">>), Cell(IF_text))}
MatchFiles == {NO_FILE} \cup {File(rows) : rows \in SeqsUpTo(MatchRows, MaxRows)}

Sigma == {"a", "A", "b", " "}
NamedVenues == {V_empty, V_blank, V_the_lancet, V_the_lancet_padded,
                V_the_lancet_wide, V_the_lancets, V_bmj_opens, V_bmj_wide,
                V_xyz, STR_NA}
MatchVenues == SeqsUpTo(Sigma, MaxLen) \cup NamedVenues

\* Data files of the search run.
SearchFiles ==
    {NO_FILE,
     File(<<Row(Cell(T_The_Lancet), Cell(IF_below_floor)),
            Row(Cell(T_BMJ_Open), Cell(IF_0_9996)),
            Row(Cell(T_N_A), Cell(IF_8_5))>>),
     File(<<Row(Cell(T_THE_LANCET), Cell(IF_8_5)),
            Row(Cell(T_The_Lancet), Cell(IF_0_05)),
            Row(Cell(T_Cell), Cell(IF_text))>>),
     File(<<Row(NA_CELL, Cell(IF_8_5)), Row(Cell(T_Cell), Cell(IF_comma))>>)}

\* A publication: its bib has a venue or has none.
Pub(v) == [has_venue |-> TRUE, venue |-> v]
PUB_NO_VENUE == [has_venue |-> FALSE, venue |-> <<>>]
Pubs == {Pub(V_empty), Pub(V_blank), Pub(V_the_lancet), Pub(V_the_lancet_wide),
         Pub(V_bmj_opens), Pub(V_xyz), PUB_NO_VENUE}
LongPubs == {Pub(V_the_lancet), Pub(V_bmj_opens)}

\* Metric values: every ten-thousandth up to MaxMetric whose fourth decimal
\* is not 5, and NaN.
MetricValues == {x \in 0..MaxMetric : x % 10 # 5} \cup {np_nan}

(***************************************************************************)
(* The search run: the script's top level.                                 *)
(***************************************************************************)
\* Mutant: the memo keyed by the processed venue.
cache_key_normalized(venue) == venue_processed(venue)

\* st.cache_data keys a call by its arguments; the catalog is fixed, so the
\* key is the venue as passed.
cache_key(venue) == venue

cached_call(venue) ==
    IF cache_key(venue) \in DOMAIN cache
    THEN cache[cache_key(venue)]
    ELSE get_journal_info_with_log(venue, db_df, journal_names_upper_list)

\* bib.get('venue', 'N/A')
venue_of(pub) == IF pub.has_venue THEN pub.venue ELSE STR_NA

\* Mutant: the log condition without the test that the score is above 0.
logs_failure_any_score(r) ==
    pd_isna(r.if_float) /\ r.score < MATCH_SCORE_THRESHOLD

\* The condition under which the loop records a failed match (line 183).
logs_failure(r) ==
    pd_isna(r.if_float) /\ r.score > 0 /\ r.score < MATCH_SCORE_THRESHOLD

\* The filter of line 192.
skips_row(filter, r) == filter /\ pd_isna(r.if_float)

\* Mutant: the limit test off by one.
limit_reached_late(k) == k > MAX_RESULTS_LIMIT

\* The loop's limit test of line 171.
limit_reached(k) == k >= MAX_RESULTS_LIMIT

result_row(k, venue, r) ==
    [title |-> k,
     top_journal |-> ~pd_isna(r.if_float) /\ r.if_float >= TOP_JOURNAL_IF_THRESHOLD,
     venue |-> venue,
     db_name |-> r.db_matched,
     match_score |-> IF r.score > 0 THEN [na |-> FALSE, v |-> r.score]
                     ELSE [na |-> TRUE, v |-> 0],
     if_numeric |-> r.if_float,
     impact_factor |-> impact_factor_field(r.if_float)]

log_row(k, venue, r) ==
    [title |-> k, venue |-> venue, venue_processed |-> r.scholar_venue_processed,
     candidate |-> r.best_db_candidate, score |-> r.score]

\* One row of df_display: the IF grade from the numeric value, the colour
\* from the Impact Factor string.
display_row(row) ==
    [title |-> row.title, top_journal |-> row.top_journal, venue |-> row.venue,
     db_name |-> row.db_name, match_score |-> row.match_score,
     if_numeric |-> row.if_numeric,
     impact_factor |-> row.impact_factor,
     grade |-> classify_sjr(row.if_numeric),
     color |-> color_sjr_score(row.impact_factor)]

\* The publication the iterator yields next is search_query.pub when the
\* stream is a fixed one of search_query.len copies; an open stream yields
\* any publication, MaxPubs at most.
HasNext ==
    IF search_query.fixed THEN i < search_query.len ELSE i < MaxPubs

NextPubs == IF search_query.fixed THEN {search_query.pub} ELSE Pubs

Init ==
    /\ csv \in SearchFiles
    /\ db_df = NoneDF
    /\ journal_names_upper_list = <<>>
    /\ cache = <<>>
    /\ only_if_found = TRUE
    /\ search_query = [fixed |-> FALSE, pub |-> PUB_NO_VENUE, len |-> 0]
    /\ i = 0
    /\ results = <<>>
    /\ failed_matches_log = <<>>
    /\ processed = <<>>
    /\ df_display = <<>>
    /\ arg = 0
    /\ ret = 0
    /\ pc = "start"

\* Line 131: db_df, journal_names_upper_list = load_journal_db()
LoadJournalDb ==
    /\ pc = "start"
    /\ db_df' = load_journal_db(csv)
    /\ journal_names_upper_list' = names_upper_list(load_journal_db(csv))
    /\ pc' = "form"
    /\ UNCHANGED <<csv, cache, only_if_found, search_query, i, results,
                   failed_matches_log, processed, df_display, arg, ret>>

\* Lines 158-169: the form is submitted and the search starts.
SubmitSearch ==
    /\ pc = "form"
    /\ ~db_df.none
    /\ only_if_found' \in BOOLEAN
    /\ search_query' \in
          {[fixed |-> FALSE, pub |-> PUB_NO_VENUE, len |-> 0]} \cup
          {[fixed |-> TRUE, pub |-> p, len |-> n] :
              p \in LongPubs, n \in {MAX_RESULTS_LIMIT, MAX_RESULTS_LIMIT + 1}}
    /\ i' = 0
    /\ results' = <<>>
    /\ failed_matches_log' = <<>>
    /\ processed' = <<>>
    /\ pc' = "loop"
    /\ UNCHANGED <<csv, db_df, journal_names_upper_list, cache, df_display, arg, ret>>

\* Lines 170-211: one iteration of the loop below the limit.
ProcessPub ==
    /\ pc = "loop"
    /\ HasNext
    /\ ~limit_reached(i)
    /\ \E pub \in NextPubs :
          LET venue == venue_of(pub)
              r == cached_call(venue)
          IN  /\ cache' = (cache_key(venue) :> r) @@ cache
              /\ processed' = Append(processed,
                     [title |-> i, has_venue |-> pub.has_venue, venue |-> venue,
                      ret |-> r, from_cache |-> cache_key(venue) \in DOMAIN cache])
              /\ failed_matches_log' =
                     IF logs_failure(r)
                     THEN Append(failed_matches_log, log_row(i, venue, r))
                     ELSE failed_matches_log
              /\ results' =
                     IF skips_row(only_if_found, r) THEN results
                     ELSE Append(results, result_row(i, venue, r))
    /\ i' = i + 1
    /\ UNCHANGED <<csv, db_df, journal_names_upper_list, only_if_found,
                   search_query, df_display, arg, ret, pc>>

\* Lines 171-173: the limit is reached with publications left: break.
LimitBreak ==
    /\ pc = "loop"
    /\ HasNext
    /\ limit_reached(i)
    /\ pc' = "display"
    /\ UNCHANGED <<csv, db_df, journal_names_upper_list, cache, only_if_found,
                   search_query, i, results, failed_matches_log, processed,
                   df_display, arg, ret>>

\* The iterator is exhausted.
StreamEnds ==
    /\ pc = "loop"
    /\ IF search_query.fixed THEN i = search_query.len ELSE TRUE
    /\ pc' = "display"
    /\ UNCHANGED <<csv, db_df, journal_names_upper_list, cache, only_if_found,
                   search_query, i, results, failed_matches_log, processed,
                   df_display, arg, ret>>

\* Lines 213-250: the table is built and shown.
Display ==
    /\ pc = "display"
    /\ df_display' = [k \in 1..Len(results) |-> display_row(results[k])]
    /\ pc' = "done"
    /\ UNCHANGED <<csv, db_df, journal_names_upper_list, cache, only_if_found,
                   search_query, i, results, failed_matches_log, processed,
                   arg, ret>>

Next == LoadJournalDb \/ SubmitSearch \/ ProcessPub \/ LimitBreak \/ StreamEnds \/ Display

Spec == Init /\ [][Next]_vars

(***************************************************************************)
(* load_journal_db over every data file.                                   *)
(***************************************************************************)
InitLoad ==
    /\ csv \in LoadFiles
    /\ db_df = NoneDF
    /\ journal_names_upper_list = <<>>
    /\ cache = <<>>
    /\ only_if_found = TRUE
    /\ search_query = [fixed |-> FALSE, pub |-> PUB_NO_VENUE, len |-> 0]
    /\ i = 0
    /\ results = <<>>
    /\ failed_matches_log = <<>>
    /\ processed = <<>>
    /\ df_display = <<>>
    /\ arg = 0
    /\ ret = 0
    /\ pc = "start"

SpecLoad == InitLoad /\ [][LoadJournalDb]_vars

(***************************************************************************)
(* get_journal_info_with_log over catalogs and venues.                     *)
(***************************************************************************)
InitMatch ==
    /\ csv \in MatchFiles
    /\ db_df = load_journal_db(csv)
    /\ journal_names_upper_list = names_upper_list(load_journal_db(csv))
    /\ cache = <<>>
    /\ only_if_found = TRUE
    /\ search_query = [fixed |-> FALSE, pub |-> PUB_NO_VENUE, len |-> 0]
    /\ i = 0
    /\ results = <<>>
    /\ failed_matches_log = <<>>
    /\ processed = <<>>
    /\ df_display = <<>>
    /\ arg \in MatchVenues
    /\ ret = 0
    /\ pc = "match"

ResolveCall ==
    /\ pc = "match"
    /\ ret' = get_journal_info_with_log(arg, db_df, journal_names_upper_list)
    /\ pc' = "matched"
    /\ UNCHANGED <<csv, db_df, journal_names_upper_list, cache, only_if_found,
                   search_query, i, results, failed_matches_log, processed,
                   df_display, arg>>

SpecMatch == InitMatch /\ [][ResolveCall]_vars

(***************************************************************************)
(* The Impact Factor field, classify_sjr and color_sjr_score over metric   *)
(* values.                                                                 *)
(***************************************************************************)
InitClassify ==
    /\ csv = NO_FILE
    /\ db_df = NoneDF
    /\ journal_names_upper_list = <<>>
    /\ cache = <<>>
    /\ only_if_found = TRUE
    /\ search_query = [fixed |-> FALSE, pub |-> PUB_NO_VENUE, len |-> 0]
    /\ i = 0
    /\ results = <<>>
    /\ failed_matches_log = <<>>
    /\ processed = <<>>
    /\ df_display = <<>>
    /\ arg \in MetricValues
    /\ ret = 0
    /\ pc = "metric"

\* The row's Impact Factor string (line 208).
FormatCall ==
    /\ pc = "metric"
    /\ ret' = [impact_factor |-> impact_factor_field(arg), grade |-> "", color |-> ""]
    /\ pc' = "formatted"
    /\ UNCHANGED <<csv, db_df, journal_names_upper_list, cache, only_if_found,
                   search_query, i, results, failed_matches_log, processed,
                   df_display, arg>>

\* The grade column (line 222) and the cell's colour (line 231).
StyleCall ==
    /\ pc = "formatted"
    /\ ret' = [impact_factor |-> ret.impact_factor,
               grade |-> classify_sjr(arg),
               color |-> color_sjr_score(ret.impact_factor)]
    /\ pc' = "styled"
    /\ UNCHANGED <<csv, db_df, journal_names_upper_list, cache, only_if_found,
                   search_query, i, results, failed_matches_log, processed,
                   df_display, arg>>

SpecClassify == InitClassify /\ [][FormatCall \/ StyleCall]_vars

(***************************************************************************)
(* Claims.                                                                 *)
(***************************************************************************)
\* The rows of the loaded catalog.
CatalogRows == {db_df.rows[k] : k \in 1..Len(db_df.rows)}

IsCatalogEntry(name, metric) ==
    \E row \in CatalogRows :
        row.journal_title = name /\ row.impact_factor_numeric = metric

\* C1: get_journal_info_with_log reports a match (a metric value that is not
\* NaN, with a catalog journal name) only when the best candidate's score
\* is at least MATCH_SCORE_THRESHOLD.
C1_MatchOnlyAtThreshold ==
    pc = "matched" =>
        (~pd_isna(ret.if_float) =>
            /\ ret.score >= MATCH_SCORE_THRESHOLD
            /\ IsCatalogEntry(ret.db_matched, ret.if_float))

\* A match accepted with the lowest score that passes.
C1_Witness ==
    /\ pc = "matched"
    /\ ret.score = MATCH_SCORE_THRESHOLD
    /\ ~pd_isna(ret.if_float)

\* The entries of processed whose publication has a venue that is not
\* blank and that the matcher left unresolved.
Unresolved(e) ==
    /\ e.has_venue
    /\ venue_processed(e.venue) # <<>>
    /\ e.ret.extractOne_calls = 1
    /\ pd_isna(e.ret.if_float)

RowsOf(e) == {k \in 1..Len(results) : results[k].title = e.title}
LogsOf(e) == {k \in 1..Len(failed_matches_log) : failed_matches_log[k].title = e.title}
NoName == {STR_NA, DB_MATCH_FAILED, DB_LOOKUP_ERROR}

\* C2 as stated: an unresolved venue's result and row have no matched name,
\* no metric value, confidence score 0 and band Unknown; the candidate and
\* its score are in the failure log only.
C2_UnresolvedScoreZero ==
    \A k \in 1..Len(processed) :
        LET e == processed[k] IN
        Unresolved(e) =>
            /\ e.ret.db_matched \in NoName
            /\ pd_isna(e.ret.if_float)
            /\ e.ret.score = 0
            /\ classify_sjr(e.ret.if_float) = "N/A"
            /\ \A r \in RowsOf(e) :
                  /\ results[r].db_name \in NoName
                  /\ pd_isna(results[r].if_numeric)
                  /\ results[r].match_score.na

\* C2 as amended: an unresolved venue's result has the failure marker for a
\* name, no metric value and band Unknown, and carries the best candidate's
\* score, which is below the threshold; its row, emitted when the filter is
\* off, shows that score when it is above 0; the candidate itself is in the
\* failure log only, once, when the score is above 0.  Stated of the record
\* processed last, at every point of the run.
C2_UnresolvedKeepsScore ==
    Len(processed) > 0 =>
        LET e == processed[Len(processed)] IN
        Unresolved(e) =>
            /\ e.ret.db_matched = DB_MATCH_FAILED
            /\ classify_sjr(e.ret.if_float) = "N/A"
            /\ e.ret.score \in 0..(MATCH_SCORE_THRESHOLD - 1)
            /\ e.ret.score =
                  extractOne(venue_processed(e.venue), journal_names_upper_list).score
            /\ Cardinality(RowsOf(e)) = (IF only_if_found THEN 0 ELSE 1)
            /\ \A r \in RowsOf(e) :
                  /\ results[r].db_name = DB_MATCH_FAILED
                  /\ pd_isna(results[r].if_numeric)
                  /\ results[r].impact_factor.lit = "N/A"
                  /\ results[r].match_score =
                        (IF e.ret.score > 0 THEN [na |-> FALSE, v |-> e.ret.score]
                         ELSE [na |-> TRUE, v |-> 0])
            /\ Cardinality(LogsOf(e)) = (IF e.ret.score > 0 THEN 1 ELSE 0)
            /\ \A l \in LogsOf(e) :
                  /\ failed_matches_log[l].candidate = e.ret.best_db_candidate
                  /\ failed_matches_log[l].score = e.ret.score

\* An unresolved venue with a score just below the threshold, its row
\* emitted with the filter off, and one with score 0.
C2_Witness ==
    /\ ~only_if_found
    /\ \E j, k \in 1..Len(processed) :
          /\ Unresolved(processed[j]) /\ Unresolved(processed[k])
          /\ processed[j].ret.score = MATCH_SCORE_THRESHOLD - 1
          /\ processed[k].ret.score = 0
          /\ RowsOf(processed[j]) # {} /\ LogsOf(processed[j]) # {}
          /\ RowsOf(processed[k]) # {}

\* The band table of the result guide.
BandOf(x) ==
    CASE x = np_nan -> "N/A"
      [] x # np_nan /\ x >= 10000 -> "excellent"
      [] x # np_nan /\ x >= 5000 /\ x < 10000 -> "good"
      [] x # np_nan /\ x >= 2000 /\ x < 5000 -> "fair"
      [] x # np_nan /\ x < 2000 -> "poor"

\* C3: classify_sjr gives every metric value the band of the table; each
\* boundary is in the band it bounds from below; the band is N/A exactly
\* for NaN.
C3_ClassifyAgreesWithTable ==
    pc = "styled" =>
        /\ ret.grade = BandOf(arg)
        /\ (ret.grade = "N/A" <=> pd_isna(arg))
        /\ (arg = 10000 => ret.grade = "excellent")
        /\ (arg = 5000 => ret.grade = "good")
        /\ (arg = 2000 => ret.grade = "fair")
        /\ (arg = BELOW_FLOOR => ret.grade = "poor")

\* The boundary 1.0 classified.
C3_Witness == pc = "styled" /\ arg = 10000 /\ ret.grade = "excellent"

\* normalize(s) of the specification: trim, collapse internal whitespace,
\* upper-case.
RECURSIVE collapse(_)
collapse(s) ==
    IF Len(s) < 2 THEN s
    ELSE IF IsSpace(s[1]) /\ IsSpace(s[2]) THEN collapse(Tail(s))
    ELSE <<s[1]>> \o collapse(Tail(s))

normalize(s) == str_upper(collapse(str_strip(s)))

trim_upper(s) == str_upper(str_strip(s))

HasAlnum(s) == \E k \in 1..Len(s) : IsAlnum(s[k])

\* C4 as stated: a venue whose normalized form equals the normalized form
\* of a catalog name is matched with score 100 to that entry.
C4_NormalizedEqualMatches ==
    pc = "matched" =>
        \A row \in CatalogRows :
            (normalize(arg) # <<>> /\ normalize(arg) = normalize(row.journal_title)) =>
                /\ ret.score = 100
                /\ ret.db_matched = row.journal_title
                /\ ret.if_float = row.impact_factor_numeric

\* The first catalog row whose processed name equals the processed venue.
FirstEqual(venue) ==
    LET same == {k \in 1..Len(db_df.rows) :
                    full_process(db_df.rows[k].journal_title_upper)
                        = full_process(venue_processed(venue))}
    IN  CHOOSE k \in same : \A j \in same : k <= j

\* C4 as amended: a venue with a letter or digit that equals a catalog name
\* after trimming and upper-casing both (internal whitespace as it is) is
\* matched with score 100, to the first catalog entry whose compared form
\* equals the venue's.
C4_TrimUpperEqualMatches ==
    pc = "matched" =>
        ((\E row \in CatalogRows :
              HasAlnum(arg) /\ trim_upper(arg) = trim_upper(row.journal_title)) =>
            /\ ret.score = 100
            /\ ret.db_matched = db_df.rows[FirstEqual(arg)].journal_title
            /\ ret.if_float = db_df.rows[FirstEqual(arg)].impact_factor_numeric)

\* The catalog {The Lancet: below floor} and the venue " The Lancet ".
C4_Witness ==
    /\ pc = "matched"
    /\ arg = V_the_lancet_padded
    /\ Len(db_df.rows) = 1
    /\ ret.score = 100
    /\ ret.db_matched = T_The_Lancet
    /\ ret.if_float = BELOW_FLOOR
    /\ classify_sjr(ret.if_float) = "poor"

UnknownResult(r) ==
    /\ pd_isna(r.if_float)
    /\ r.db_matched = STR_NA
    /\ r.score = 0

\* C5: a publication whose venue is missing, empty or blank is resolved to
\* the unknown result without a call of the matcher.
C5_NoVenueNoMatcherCall ==
    \A k \in 1..Len(processed) :
        LET e == processed[k] IN
        (~e.has_venue \/ str_strip(e.venue) = <<>>) =>
            /\ UnknownResult(e.ret)
            /\ e.ret.extractOne_calls = 0

\* The part of C5 the code keeps: an empty or blank venue.
C5_BlankVenueNoMatcherCall ==
    \A k \in 1..Len(processed) :
        LET e == processed[k] IN
        (e.has_venue /\ str_strip(e.venue) = <<>>) =>
            /\ UnknownResult(e.ret)
            /\ e.ret.extractOne_calls = 0

\* The record processed last and the records before it.
LastProcessed == processed[Len(processed)]
Earlier == 1..(Len(processed) - 1)

\* C7: at every point of a batch, the result of the latest call is the
\* result a fresh computation gives for its venue, and is identical to the
\* result of every earlier call with the same venue, the calls for other
\* venues in between notwithstanding; a repeated venue is served from the
\* cache.
C7_SameVenueSameResult ==
    Len(processed) > 0 =>
        /\ LastProcessed.ret =
              get_journal_info_with_log(LastProcessed.venue, db_df,
                                        journal_names_upper_list)
        /\ \A j \in Earlier :
              processed[j].venue = LastProcessed.venue =>
                  /\ processed[j].ret = LastProcessed.ret
                  /\ LastProcessed.from_cache

\* A venue resolved, another venue resolved, and the first venue again,
\* from the cache.
C7_Witness ==
    /\ Len(processed) = 3
    /\ processed[1].venue = processed[3].venue
    /\ processed[2].venue # processed[1].venue
    /\ ~processed[1].from_cache
    /\ processed[3].from_cache
    /\ processed[1].ret.extractOne_calls = 1

\* C8: the Impact Factor field is "N/A" exactly for NaN, "<0.1" exactly for
\* the below-floor sentinel, and else the value to three decimals.
C8_FieldForms ==
    pc \in {"formatted", "styled"} =>
        LET f == ret.impact_factor IN
        /\ f.lit \in {"N/A", "<0.1", "num"}
        /\ (f.lit = "N/A" <=> pd_isna(arg))
        /\ (f.lit = "<0.1" <=> arg = BELOW_FLOOR)
        /\ (f.lit = "num" =>
               /\ 10 * f.milli - arg < 5
               /\ arg - 10 * f.milli < 5)

\* The sentinel rendered as the below-floor literal.
C8_Witness ==
    /\ pc = "formatted"
    /\ arg = BELOW_FLOOR
    /\ ret.impact_factor.lit = "<0.1"

Titles(rows) == [k \in 1..Len(rows) |-> rows[k].title]

Accepted(e) == ~pd_isna(e.ret.if_float)
NearMiss(e) == e.ret.score > 0 /\ e.ret.score < MATCH_SCORE_THRESHOLD

\* C9: the records processed are the first MAX_RESULTS_LIMIT of the stream
\* at most; with the filter on, the rows are exactly the processed records
\* with an accepted match, in input order, none with a NaN metric; with the
\* filter on or off, the failed-match log holds exactly the processed
\* records that scored above 0 and below the threshold, once each.
C9_RowsAndLog ==
    /\ Len(processed) = i
    /\ i <= MAX_RESULTS_LIMIT
    /\ Titles(processed) = [k \in 1..i |-> k - 1]
    /\ (pc \in {"display", "done"} /\ search_query.fixed) =>
           i = (IF search_query.len < MAX_RESULTS_LIMIT
                THEN search_query.len ELSE MAX_RESULTS_LIMIT)
    /\ only_if_found =>
           /\ Titles(results) = Titles(SelectSeq(processed, Accepted))
           /\ \A k \in 1..Len(results) : ~pd_isna(results[k].if_numeric)
    /\ Titles(failed_matches_log) = Titles(SelectSeq(processed, NearMiss))

\* A stream of more than MAX_RESULTS_LIMIT matching publications, cut at
\* the limit with the filter on.
C9_Witness ==
    /\ pc = "done"
    /\ only_if_found
    /\ search_query.fixed
    /\ search_query.len > MAX_RESULTS_LIMIT
    /\ Len(results) = MAX_RESULTS_LIMIT

\* The colour that stands for a band.
ColorOfBand(band) ==
    CASE band = "excellent" -> "green"
      [] band = "good" -> "blue"
      [] band = "fair" -> "orange"
      [] band = "poor" -> "red"
      [] band = "N/A" -> "grey"

\* C10: the colour computed from the Impact Factor string is the colour of
\* the band computed from the numeric value.
C10_ColorMatchesBand ==
    pc = "styled" => ret.color = ColorOfBand(ret.grade)

\* C6: what the loader keeps of a data file.  A row is kept exactly when it
\* has a title and its metric cell is the below-floor token or a number.
ExpectedMetric(cell) ==
    IF cell.na THEN np_nan
    ELSE IF cell.s \in {IF_below_floor, IF_below_floor_padded} THEN BELOW_FLOOR
    ELSE IF cell.s = IF_0_05 THEN 500
    ELSE IF cell.s = IF_0_9996 THEN 9996
    ELSE IF cell.s = IF_0_5 THEN 5000
    ELSE IF cell.s = IF_8_5 THEN 85000
    ELSE np_nan

KeptRows(rows) ==
    SelectSeq([k \in 1..Len(rows) |->
                  [source_row |-> k,
                   journal_title |-> rows[k].journal_title,
                   metric |-> ExpectedMetric(rows[k].impact_factor)]],
              LAMBDA r : ~r.journal_title.na /\ r.metric # np_nan)

\* C6: load_journal_db drops a row without a title or a metric, keeps a
\* below-floor row with the sentinel, drops a row with any other text for
\* a metric, and keeps every other row, in source order, whatever the other
\* rows are; no loaded entry has a NaN metric.
C6_RowsHandledOneByOne ==
    (pc = "form" /\ csv.exists) =>
        /\ ~db_df.none
        /\ Len(db_df.rows) = Len(KeptRows(csv.rows))
        /\ \A k \in 1..Len(db_df.rows) :
              /\ db_df.rows[k].source_row = KeptRows(csv.rows)[k].source_row
              /\ db_df.rows[k].journal_title = KeptRows(csv.rows)[k].journal_title.s
              /\ db_df.rows[k].impact_factor_numeric = KeptRows(csv.rows)[k].metric
              /\ ~pd_isna(db_df.rows[k].impact_factor_numeric)
        /\ journal_names_upper_list =
              [k \in 1..Len(db_df.rows) |-> str_upper(db_df.rows[k].journal_title)]

\* A file whose first row has text for a metric and whose second row is a
\* below-floor row: the second row alone is loaded.
C6_Witness ==
    /\ pc = "form"
    /\ Len(csv.rows) = 2
    /\ ~csv.rows[1].impact_factor.na /\ csv.rows[1].impact_factor.s = IF_text
    /\ ~csv.rows[1].journal_title.na
    /\ Len(db_df.rows) = 1
    /\ db_df.rows[1].source_row = 2
    /\ db_df.rows[1].impact_factor_numeric = BELOW_FLOOR

====
